---- MODULE Spec2Model ----
(***************************************************************************)
(* State-machine model of the HOTP / TOTP generators of rs-otp             *)
(* (src/src/hotp.rs, src/src/totp.rs).                                     *)
(*                                                                         *)
(* State: the generator a caller holds (its fields), the build profile    *)
(* (whether integer overflow checks are compiled in), and the outcome of   *)
(* the last call made on the generator.  `first` is a history variable:    *)
(* the first code the generator derived, with the generator as it was.    *)
(*                                                                         *)
(* A u64 is kept at its full width: four limbs of 16 bits, least           *)
(* significant first, so that wrapping subtraction, division and           *)
(* to_be_bytes() are computed on the machine representation.               *)
(***************************************************************************)
EXTENDS Integers, Sequences, FiniteSets, TLC

VARIABLES generator, overflow_checks, out, first

vars == <<generator, overflow_checks, out, first>>

\* ------------------------------------------------------------------ bounds
MaxTime == 6
MaxStart == 1
MaxPeriod == 3
MaxCounter == 2
MaxFill == 1
MaxDigits == 10
MaxLater == 2

\* ------------------------------------------------------- u64 arithmetic
Limb == 2^16
NLimbs == 64 \div 16

\* The u64 holding the (small) number n.
U64(n) == [i \in 1..NLimbs |-> IF i = 1 THEN n % Limb
                               ELSE IF i = 2 THEN n \div Limb ELSE 0]

\* The number held by a u64 whose two upper limbs are zero.
U64ToNat(x) == x[1] + x[2] * Limb

RECURSIVE SubFrom(_, _, _, _)
SubFrom(a, b, i, borrow) ==
    IF i > NLimbs THEN <<>>
    ELSE LET d == a[i] - b[i] - borrow
         IN  <<IF d < 0 THEN d + Limb ELSE d>>
                 \o SubFrom(a, b, i + 1, IF d < 0 THEN 1 ELSE 0)

\* u64::wrapping_sub: a - b modulo 2^64 (what `a - b` is without overflow checks).
wrapping_sub(a, b) == SubFrom(a, b, 1, 0)

RECURSIVE LessFrom(_, _, _)
LessFrom(a, b, i) ==
    IF i = 0 THEN FALSE
    ELSE IF a[i] /= b[i] THEN a[i] < b[i]
    ELSE LessFrom(a, b, i - 1)

\* a < b on u64: the condition under which `a - b` overflows.
U64Less(a, b) == LessFrom(a, b, NLimbs)

RECURSIVE DivRem(_, _, _, _)
DivRem(a, p, i, rem) ==
    IF i = 0 THEN [q |-> <<>>, r |-> rem]
    ELSE LET cur  == rem * Limb + a[i]
             rest == DivRem(a, p, i - 1, cur % p)
         IN  [q |-> rest.q \o <<cur \div p>>, r |-> rest.r]

\* `a / p` and `a % p` on u64, p a small positive period.
U64Div(a, p) == DivRem(a, p, NLimbs, 0).q
U64Rem(a, p) == DivRem(a, p, NLimbs, 0).r

\* u64::to_be_bytes: the 8 bytes of x, most significant first.
to_be_bytes(x) ==
    [k \in 1..8 |-> LET limb == x[NLimbs - ((k - 1) \div 2)]
                    IN  IF k % 2 = 1 THEN limb \div 256 ELSE limb % 256]

\* ------------------------------------------------ external collaborators
MacDigests == {"SHA1", "SHA256", "SHA512"}

\* Output length in bytes of HMAC with the given digest.
HashLen(d) == IF d = "SHA1" THEN 20 ELSE IF d = "SHA256" THEN 32 ELSE 64

DigestTag(d) == IF d = "SHA1" THEN 1 ELSE IF d = "SHA256" THEN 2 ELSE 3

HashPrime == 32749

RECURSIVE Mix(_, _)
Mix(s, acc) ==
    IF s = <<>> THEN acc
    ELSE Mix(Tail(s), (acc * 31 + Head(s) + 7) % HashPrime)

\* util::hash_generic: a keyed hash of msg under secret.  HMAC itself is an
\* external primitive; it is represented by a fixed deterministic function of
\* (msg, secret, digest) with the digest's output length.
hash_generic(msg, secret, digest) ==
    LET seed == Mix(msg, Mix(secret, DigestTag(digest)))
    IN  [i \in 1..HashLen(digest) |->
            LET v == (seed * (i + 1) + i * i * 17 + 5) % HashPrime
            IN  ((v * v) \div 64) % 256]

RECURSIVE Pow10(_)
Pow10(d) == IF d = 0 THEN 1 ELSE 10 * Pow10(d - 1)

\* util::get_code: the 4 bytes as a big-endian integer with the top bit
\* masked off (31 bits), reduced modulo 10^digits.  The 31-bit value is below
\* 10^10, so for digits >= 10 the reduction leaves it as it is.
get_code(bytes, digits) ==
    LET truncated == (bytes[1] % 128) * 2^24 + bytes[2] * 2^16
                        + bytes[3] * 2^8 + bytes[4]
    IN  IF digits >= 10 THEN truncated ELSE truncated % Pow10(digits)

\* OTPResult::new
OTPResult_new(digits, code) == [digits |-> digits, code |-> code]

Panic(msg) == [status |-> "panic", msg |-> msg]

\* ------------------------------------------------------------ hotp.rs
\* HOTP::new
HOTP_new(secret, digits) ==
    [kind |-> "HOTP", secret |-> secret, digits |-> digits]

\* Mutant of hotp_window: the offset is masked with 0x1f instead of 0x0f.
hotp_window_wide_mask(hash) ==
    IF Len(hash) = 0 THEN Panic("index out of bounds")
    ELSE LET offset == hash[Len(hash)] % 32
         IN  IF offset + 4 > Len(hash)
             THEN [status |-> "panic", msg |-> "range end index out of range",
                   offset |-> offset]
             ELSE [status |-> "ok", offset |-> offset,
                   bytes |-> SubSeq(hash, offset + 1, offset + 4)]

\* HOTP::get_otp, the dynamic truncation: the low nibble of the last hash
\* byte is the offset of a 4-byte window, `hash[offset..offset + 4]`.
hotp_window(hash) ==
    IF Len(hash) = 0 THEN Panic("index out of bounds")
    ELSE LET offset == hash[Len(hash)] % 16
         IN  IF offset + 4 > Len(hash)
             THEN [status |-> "panic", msg |-> "range end index out of range",
                   offset |-> offset]
             ELSE LET bytes == SubSeq(hash, offset + 1, offset + 4)
                  IN  IF Len(bytes) /= 4
                      THEN [status |-> "panic", msg |-> "Failed byte get",
                            offset |-> offset]
                      ELSE [status |-> "ok", offset |-> offset, bytes |-> bytes]

\* Mutant of HOTP_get_otp: the code is reduced with one digit too many.
HOTP_get_otp_extra_digit(self, counter) ==
    LET hash == hash_generic(to_be_bytes(counter), self.secret, "SHA1")
        w    == hotp_window(hash)
    IN  IF w.status = "panic" THEN w
        ELSE [status |-> "ok", counter |-> counter, digest |-> "SHA1",
              offset |-> w.offset,
              value  |-> OTPResult_new(self.digits,
                                       get_code(w.bytes, self.digits + 1))]

\* HOTP::get_otp
HOTP_get_otp(self, counter) ==
    LET hash == hash_generic(to_be_bytes(counter), self.secret, "SHA1")
        w    == hotp_window(hash)
    IN  IF w.status = "panic" THEN w
        ELSE [status |-> "ok", counter |-> counter, digest |-> "SHA1",
              offset |-> w.offset,
              value  |-> OTPResult_new(self.digits, get_code(w.bytes, self.digits))]

\* ------------------------------------------------------------ totp.rs
\* TOTP::new
TOTP_new(secret, mac_digest, digits, period) ==
    [kind |-> "TOTP", secret |-> secret, mac_digest |-> mac_digest,
     digits |-> digits, period |-> period]

\* `time - time_start` on u64: panics when overflow checks are compiled in
\* (debug profile), wraps modulo 2^64 when they are not (release profile).
checked_sub(checks, time, time_start) ==
    IF U64Less(time, time_start) /\ checks
    THEN Panic("attempt to subtract with overflow")
    ELSE [status |-> "ok", value |-> wrapping_sub(time, time_start)]

\* Mutant of TOTP_time_until_refresh_with_start: the remainder is returned
\* as it is, also when it is 0.
TOTP_time_until_refresh_with_start_no_wrap(self, checks, time, time_start) ==
    LET diff == checked_sub(checks, time, time_start)
    IN  IF diff.status = "panic" THEN diff
        ELSE IF self.period = 0
        THEN Panic("attempt to calculate the remainder with a divisor of zero")
        ELSE [status |-> "ok", value |-> U64Rem(diff.value, self.period)]

\* TOTP::time_until_refresh_with_start
TOTP_time_until_refresh_with_start(self, checks, time, time_start) ==
    LET diff == checked_sub(checks, time, time_start)
    IN  IF diff.status = "panic" THEN diff
        ELSE IF self.period = 0
        THEN Panic("attempt to calculate the remainder with a divisor of zero")
        ELSE LET time_until == U64Rem(diff.value, self.period)
             IN  [status |-> "ok",
                  value  |-> IF time_until = 0 THEN self.period ELSE time_until]

\* TOTP::time_until_refresh
TOTP_time_until_refresh(self, checks, time) ==
    TOTP_time_until_refresh_with_start(self, checks, time, U64(0))

\* Mutant of time_count: time_start is left out of the counter.
time_count_ignores_start(self, checks, time, time_start) ==
    IF self.period = 0 THEN Panic("attempt to divide by zero")
    ELSE [status |-> "ok", value |-> U64Div(time, self.period)]

\* Mutant of time_count: a zero period is divided by as if it were 1.
time_count_zero_period(self, checks, time, time_start) ==
    LET diff == checked_sub(checks, time, time_start)
    IN  IF diff.status = "panic" THEN diff
        ELSE [status |-> "ok",
              value |-> U64Div(diff.value,
                               IF self.period = 0 THEN 1 ELSE self.period)]

\* TOTP::get_otp_with_custom_time_start, the time-derived counter:
\* `(time - time_start) / self.period`.
time_count(self, checks, time, time_start) ==
    LET diff == checked_sub(checks, time, time_start)
    IN  IF diff.status = "panic" THEN diff
        ELSE IF self.period = 0 THEN Panic("attempt to divide by zero")
        ELSE [status |-> "ok", value |-> U64Div(diff.value, self.period)]

\* Mutant of totp_window: the offset is taken from the first hash byte.
totp_window_first_byte(hash) ==
    IF Len(hash) = 0 THEN Panic("index out of bounds")
    ELSE LET offset == hash[1] % 16
         IN  [status |-> "ok", offset |-> offset,
              bytes |-> SubSeq(hash, offset + 1, offset + 4)]

\* TOTP::get_otp_with_custom_time_start, the dynamic truncation.
totp_window(hash) ==
    IF Len(hash) = 0 THEN Panic("index out of bounds")
    ELSE LET offset == hash[Len(hash)] % 16
         IN  IF offset + 4 > Len(hash)
             THEN [status |-> "panic", msg |-> "range end index out of range",
                   offset |-> offset]
             ELSE LET bytes == SubSeq(hash, offset + 1, offset + 4)
                  IN  IF Len(bytes) /= 4
                      THEN [status |-> "panic", msg |-> "Failed byte get",
                            offset |-> offset]
                      ELSE [status |-> "ok", offset |-> offset, bytes |-> bytes]

\* TOTP::get_otp_with_custom_time_start
TOTP_get_otp_with_custom_time_start(self, checks, time, time_start) ==
    LET tc == time_count(self, checks, time, time_start)
    IN  IF tc.status = "panic" THEN tc
        ELSE LET hash == hash_generic(to_be_bytes(tc.value), self.secret,
                                      self.mac_digest)
                 w    == totp_window(hash)
             IN  IF w.status = "panic" THEN w
                 ELSE [status |-> "ok", counter |-> tc.value,
                       digest |-> self.mac_digest, offset |-> w.offset,
                       value  |-> OTPResult_new(self.digits,
                                                get_code(w.bytes, self.digits))]

\* TOTP::get_otp
TOTP_get_otp(self, checks, time) ==
    TOTP_get_otp_with_custom_time_start(self, checks, time, U64(0))

\* ------------------------------------------------------- state machine
Secrets == {<<>>, <<49, 50, 51>>}

DefaultDigits == 6

HotpGenerators(secrets, digits) ==
    {HOTP_new(s, d) : s \in secrets, d \in digits}

TotpGenerators(secrets, digits) ==
    {TOTP_new(x[1], x[2], x[3], x[4]) :
        x \in secrets \X MacDigests \X digits \X (0..MaxPeriod)}

\* A generator has been constructed; no call has been made on it yet.
InitWith(secrets, digits) ==
    /\ generator \in HotpGenerators(secrets, digits)
                        \cup TotpGenerators(secrets, digits)
    /\ overflow_checks \in BOOLEAN
    /\ out = [op |-> "new"]
    /\ first = [status |-> "none"]

Init == InitWith(Secrets, {1, DefaultDigits, MaxDigits})

\* Mutant of Call_HOTP_get_otp: the call advances the generator (it keeps
\* the counter it was given in its secret).
Call_HOTP_get_otp_stateful(counter) ==
    /\ generator.kind = "HOTP"
    /\ out' = [op |-> "HOTP::get_otp", counter |-> counter,
               res |-> HOTP_get_otp(generator, U64(counter))]
    /\ generator' = [generator EXCEPT !.secret = Append(@, counter)]
    /\ UNCHANGED overflow_checks

Call_HOTP_get_otp(counter) ==
    /\ generator.kind = "HOTP"
    /\ out' = [op |-> "HOTP::get_otp", counter |-> counter,
               res |-> HOTP_get_otp(generator, U64(counter))]
    /\ UNCHANGED <<generator, overflow_checks>>

Call_TOTP_get_otp(time) ==
    /\ generator.kind = "TOTP"
    /\ out' = [op |-> "TOTP::get_otp", time |-> time, time_start |-> 0,
               res |-> TOTP_get_otp(generator, overflow_checks, U64(time))]
    /\ UNCHANGED <<generator, overflow_checks>>

Call_TOTP_get_otp_with_custom_time_start(time, time_start) ==
    /\ generator.kind = "TOTP"
    /\ out' = [op |-> "TOTP::get_otp_with_custom_time_start",
               time |-> time, time_start |-> time_start,
               res |-> TOTP_get_otp_with_custom_time_start(
                           generator, overflow_checks, U64(time),
                           U64(time_start))]
    /\ UNCHANGED <<generator, overflow_checks>>

Call_TOTP_time_until_refresh(time) ==
    /\ generator.kind = "TOTP"
    /\ out' = [op |-> "TOTP::time_until_refresh", time |-> time,
               time_start |-> 0,
               res |-> TOTP_time_until_refresh(generator, overflow_checks,
                                               U64(time))]
    /\ UNCHANGED <<generator, overflow_checks>>

Call_TOTP_time_until_refresh_with_start(time, time_start) ==
    /\ generator.kind = "TOTP"
    /\ out' = [op |-> "TOTP::time_until_refresh_with_start", time |-> time,
               time_start |-> time_start,
               res |-> TOTP_time_until_refresh_with_start(
                           generator, overflow_checks, U64(time),
                           U64(time_start))]
    /\ UNCHANGED <<generator, overflow_checks>>

Calls ==
    \/ \E c \in 0..MaxCounter : Call_HOTP_get_otp(c)
    \/ \E t \in 0..MaxTime : Call_TOTP_get_otp(t)
    \/ \E t \in 0..MaxTime, ts \in 0..MaxStart :
           Call_TOTP_get_otp_with_custom_time_start(t, ts)
    \/ \E t \in 0..MaxTime : Call_TOTP_time_until_refresh(t)
    \/ \E t \in 0..MaxTime, ts \in 0..MaxStart :
           Call_TOTP_time_until_refresh_with_start(t, ts)

Next == Calls /\ UNCHANGED first

Spec == Init /\ [][Next]_vars

\* The same calls on generators of every digit count 1..MaxDigits.
InitDigits == InitWith({<<49, 50, 51>>}, 1..MaxDigits)

SpecDigits == InitDigits /\ [][Next]_vars

\* ------------------------------------------------------------- history
IsCodeOp(o) ==
    o.op \in {"HOTP::get_otp", "TOTP::get_otp",
              "TOTP::get_otp_with_custom_time_start"}

\* The first code derived is recorded together with the generator as it was
\* then; afterwards the calls that follow are counted (up to MaxLater).
Remember(self, o) ==
    IF first.status = "none"
    THEN IF IsCodeOp(o) /\ o.res.status = "ok"
         THEN [status |-> "some", generator |-> self,
               digest |-> o.res.digest, counter |-> o.res.counter,
               value |-> o.res.value, later |-> 0]
         ELSE first
    ELSE [first EXCEPT !.later = IF @ < MaxLater THEN @ + 1 ELSE @]

InitHistory == InitWith({<<49, 50, 51>>}, {DefaultDigits})

NextHistory == Calls /\ first' = Remember(generator, out')

SpecHistory == InitHistory /\ [][NextHistory]_vars

\* ---------------------------------------- dynamic truncation on its own
\* Hash outputs of every digest length with every value of the last byte.
Hashes ==
    {[i \in 1..HashLen(d) |-> IF i = HashLen(d) THEN last
                              ELSE (i * 37 + fill * 101) % 256] :
        d \in MacDigests, last \in 0..255, fill \in 0..MaxFill}

InitTrunc ==
    /\ generator \in {HOTP_new(<<>>, DefaultDigits),
                       TOTP_new(<<>>, "SHA1", DefaultDigits, 1)}
    /\ overflow_checks = TRUE
    /\ \E h \in Hashes : out = [op |-> "hash", hash |-> h]
    /\ first = [status |-> "none"]

Step_hotp_window ==
    /\ generator.kind = "HOTP"
    /\ out.op = "hash"
    /\ out' = [op |-> "HOTP::get_otp window", hash |-> out.hash,
               res |-> hotp_window(out.hash)]
    /\ UNCHANGED <<generator, overflow_checks, first>>

Step_totp_window ==
    /\ generator.kind = "TOTP"
    /\ out.op = "hash"
    /\ out' = [op |-> "TOTP::get_otp_with_custom_time_start window",
               hash |-> out.hash, res |-> totp_window(out.hash)]
    /\ UNCHANGED <<generator, overflow_checks, first>>

NextTrunc == Step_hotp_window \/ Step_totp_window

SpecTrunc == InitTrunc /\ [][NextTrunc]_vars

\* ================================================================ claims
IsRefreshOp(o) ==
    o.op \in {"TOTP::time_until_refresh", "TOTP::time_until_refresh_with_start"}

IsTotpCodeOp(o) ==
    o.op \in {"TOTP::get_otp", "TOTP::get_otp_with_custom_time_start"}

\* The precondition of the TOTP calls: period > 0 and time >= time_start.
TotpPre == generator.period > 0 /\ out.time >= out.time_start

Elapsed == out.time - out.time_start

RECURSIVE DecimalLen(_)
DecimalLen(n) == IF n < 10 THEN 1 ELSE 1 + DecimalLen(n \div 10)

\* C1: with period > 0 and time >= time_start, time_until_refresh_with_start
\* returns period when (time - time_start) mod period is 0 and
\* period - ((time - time_start) mod period) otherwise.
C1_RefreshIsPeriodMinusRemainder ==
    (IsRefreshOp(out) /\ TotpPre) =>
        /\ out.res.status = "ok"
        /\ out.res.value = IF Elapsed % generator.period = 0
                           THEN generator.period
                           ELSE generator.period - (Elapsed % generator.period)

\* C2: with period > 0 and time >= time_start, get_otp_with_custom_time_start
\* hashes the counter floor((time - time_start) / period): the call returns
\* what the call at the start of its period returns, and the first time of
\* the next period has the next counter.
C2_CounterIsFloor ==
    (IsTotpCodeOp(out) /\ TotpPre) =>
        LET k == Elapsed \div generator.period
            bucket == out.time_start + k * generator.period
        IN  /\ out.res.status = "ok"
            /\ out.res.counter = U64(k)
            /\ out.res = TOTP_get_otp_with_custom_time_start(
                             generator, overflow_checks, U64(bucket),
                             U64(out.time_start))
            /\ time_count(generator, overflow_checks,
                          U64(bucket + generator.period),
                          U64(out.time_start)).value = U64(k + 1)

C2_Witness ==
    /\ IsTotpCodeOp(out)
    /\ generator.period > 1
    /\ out.time_start > 0
    /\ out.time = out.time_start + 2 * generator.period - 1
    /\ out.res.status = "ok"
    /\ out.res.counter = U64(1)

\* C3: when time < time_start, get_otp_with_custom_time_start and
\* time_until_refresh_with_start end in an explicit failure and never return
\* a result computed from the wrapped difference.
C3_UnderflowFails ==
    ((IsRefreshOp(out) \/ IsTotpCodeOp(out)) /\ out.time < out.time_start) =>
        out.res.status = "panic"

\* C4: on a TOTP generator whose period is 0, every call to get_otp,
\* get_otp_with_custom_time_start, time_until_refresh and
\* time_until_refresh_with_start ends in a failure, whatever the time and
\* time_start.
C4_ZeroPeriodFails ==
    ((IsRefreshOp(out) \/ IsTotpCodeOp(out)) /\ generator.period = 0) =>
        out.res.status = "panic"

C4_Witness ==
    /\ out.op = "TOTP::get_otp_with_custom_time_start"
    /\ generator.period = 0
    /\ out.time < out.time_start
    /\ ~overflow_checks
    /\ out.res.status = "panic"

C6_WindowInsideHash ==
    out.op /= "hash" =>
        /\ out.res.status = "ok"
        /\ out.res.offset \in 0..15
        /\ out.res.offset = out.hash[Len(out.hash)] % 16
        /\ out.res.offset + 4 <= Len(out.hash)
        /\ out.res.bytes = [i \in 1..4 |-> out.hash[out.res.offset + i]]

C6_Witness ==
    /\ out.op = "HOTP::get_otp window"
    /\ Len(out.hash) = 20
    /\ out.res.status = "ok"
    /\ out.res.offset = 15

C8_RefreshReachesNextCounter ==
    (IsRefreshOp(out) /\ TotpPre) =>
        LET r == out.res.value
            counter_at(t) == U64ToNat(time_count(generator, overflow_checks,
                                 U64(t), U64(out.time_start)).value)
        IN  /\ out.res.status = "ok"
            /\ \A d \in 0..(r - 1) : counter_at(out.time + d) = counter_at(out.time)
            /\ counter_at(out.time + r) = counter_at(out.time) + 1

\* C9: a TOTP generator configured with SHA1 returns, for period > 0 and
\* time >= time_start, what the HOTP generator of the same secret and digits
\* returns for the counter (time - time_start) / period.
C9_TotpSha1IsHotp ==
    (IsTotpCodeOp(out) /\ TotpPre /\ generator.mac_digest = "SHA1") =>
        /\ out.res.status = "ok"
        /\ out.res.value =
               HOTP_get_otp(HOTP_new(generator.secret, generator.digits),
                            U64(Elapsed \div generator.period)).value

C9_Witness ==
    /\ out.op = "TOTP::get_otp_with_custom_time_start"
    /\ generator.mac_digest = "SHA1"
    /\ generator.period = 2
    /\ out.time_start = 1
    /\ out.time = 6
    /\ out.res.status = "ok"
    /\ out.res.value.code > 0

\* C10: with period > 0 and time >= time_start, the value returned by
\* time_until_refresh_with_start and by time_until_refresh is at least 1 and
\* at most period.
C10_RefreshInRange ==
    (IsRefreshOp(out) /\ TotpPre) =>
        /\ out.res.status = "ok"
        /\ 1 <= out.res.value
        /\ out.res.value <= generator.period

C10_Witness ==
    /\ IsRefreshOp(out)
    /\ generator.period > 1
    /\ out.time > out.time_start
    /\ Elapsed % generator.period = 0
    /\ out.res.status = "ok"
    /\ out.res.value = generator.period

====
